---------------------------- MODULE Spec2Model ----------------------------
(***************************************************************************)
(* Three view components of the wallet UI, each modelled as a state        *)
(* machine over its props, its local state and the callbacks it invokes:   *)
(*   - PasswordForm         (src/unnamed/part_000)                         *)
(*   - LedgerSelectWallets  (src/src/components/ledger/LedgerSelectWallets *)
(*                           .tsx, lines 1-150)                            *)
(*   - Main                 (same file, lines 152-412)                     *)
(* Strings of the program are sequences of string tokens: '' is <<>>, a    *)
(* password is the sequence of its characters, a message is <<"text">>.    *)
(* Every action is one handler (or one change of props by the parent)      *)
(* together with the re-render and the effects that follow it.             *)
(***************************************************************************)
EXTENDS Integers, Sequences, FiniteSets, TLC

VARIABLES
    \* ---- PasswordForm: environment, props, state
    nativeSupported,   \* getIsNativeBiometricAuthSupported()
    canDelegate,       \* CAN_DELEGATE_BOTTOM_SHEET
    isActive,          \* prop isActive
    isLoading,         \* prop isLoading
    error,             \* prop error ('' when absent)
    authKind,          \* global.settings.authConfig: "none" or its kind
    password,          \* useState password
    localError,        \* useState localError
    pendingPauses,     \* pause(APPEAR_ANIMATION_DURATION_MS) timers not yet fired
    pendingFetches,    \* authApi.getPassword calls not yet settled
    formEvent,         \* the handler that ran last
    formCalls,         \* the callbacks of the parent that handler invoked, in order
    \* ---- LedgerSelectWallets: props, state
    hardwareWallets,         \* prop hardwareWallets (undefined is the empty list)
    accounts,                \* prop accounts: the addresses of its values
    hasOnCancel,             \* whether prop onCancel is given
    selectedAccountIndices,  \* useState selectedAccountIndices
    ledgerEvent,             \* the handler that ran last
    ledgerCalls,             \* the actions and callbacks that handler invoked, in order
    \* ---- Main: environment, props, global state
    isTouchEnv,        \* IS_TOUCH_ENV
    isDelegatedSheet,  \* IS_DELEGATED_BOTTOM_SHEET
    isPortrait,        \* useDeviceScreen().isPortrait
    mainIsActive,      \* prop isActive of Main
    canRenderStickyCard,        \* useState canRenderStickyCard
    shouldRenderDarkStatusBar,  \* useState shouldRenderDarkStatusBar
    observing,         \* pairs of IntersectionObservers that observe the card
    store,             \* the global state the actions of Main write
    swipeResult,       \* what onSwipe returned to the gesture dispatcher
    mainEvent,         \* the handler that ran last
    mainCalls          \* the actions that handler dispatched, in order

formVars == <<nativeSupported, canDelegate, isActive, isLoading, error, authKind,
              password, localError, pendingPauses, pendingFetches, formEvent, formCalls>>

ledgerVars == <<hardwareWallets, accounts, hasOnCancel, selectedAccountIndices,
                ledgerEvent, ledgerCalls>>

mainVars == <<isTouchEnv, isDelegatedSheet, isPortrait, mainIsActive,
              canRenderStickyCard, shouldRenderDarkStatusBar, observing,
              store, swipeResult, mainEvent, mainCalls>>

vars == <<formVars, ledgerVars, mainVars>>

-----------------------------------------------------------------------------
(* Bounds and constants *)

PIN_LENGTH == 4
MaxPending == 2
MaxInputLen == 2

Chars == {"1", "2"}
SeqsUpTo(n) == UNION {[1..k -> Chars] : k \in 0..n}

AuthKinds == {"none", "password", "webauthn", "native-biometrics"}
StoredSecrets == {<<"2", "1", "2", "1">>}
ErrMessages == {<<>>, <<"NotAllowedError">>}
ExternalErrors == {<<"Wrong password">>}

Call(fn, arg) == [fn |-> fn, arg |-> arg]
Event(kind, arg) == [kind |-> kind, arg |-> arg]

\* lang(key): the translation of key; lang('') is ''.
Lang(key) == IF key = <<>> THEN <<>> ELSE <<"lang">> \o key

-----------------------------------------------------------------------------
(* PasswordForm *)

IsBiometricAuthEnabled(kind) == kind \notin {"none", "password"}
IsNativeBiometricAuthEnabled(kind) == kind = "native-biometrics"

IsSubmitDisabled(pw) == Len(pw) = 0

\* The auto-trigger effect: 1 when it starts a pause, 0 when it returns early.
AutoTrigger(delegating, active, biometric) ==
    IF delegating \/ ~active \/ ~biometric THEN 0 ELSE 1

\* The other two components are not touched by the form.
FormFrame == UNCHANGED <<ledgerVars, mainVars>>

FormInit ==
    /\ nativeSupported \in BOOLEAN
    /\ canDelegate \in BOOLEAN
    /\ isActive \in BOOLEAN
    /\ isLoading = FALSE
    /\ error = <<>>
    /\ authKind \in AuthKinds
    /\ password = <<>>
    /\ localError = <<>>
    /\ pendingPauses = AutoTrigger(canDelegate, isActive, IsBiometricAuthEnabled(authKind))
    /\ pendingFetches = 0
    /\ formEvent = Event("mount", <<>>)
    /\ formCalls = <<>>

\* Mutant: deactivation cancels the pending pause and the pending fetch.
SetIsActive_Cancelling(b) ==
    /\ b # isActive
    /\ isActive' = b
    /\ localError' = IF b THEN <<>> ELSE localError
    /\ password' = IF b THEN <<>> ELSE password
    /\ pendingPauses' = IF b THEN AutoTrigger(canDelegate, b, IsBiometricAuthEnabled(authKind))
                        ELSE 0
    /\ pendingFetches' = 0
    /\ formEvent' = Event("setIsActive", <<>>)
    /\ formCalls' = <<>>
    /\ UNCHANGED <<nativeSupported, canDelegate, isLoading, error, authKind>>
    /\ FormFrame

SetIsActive(b) ==
    /\ b # isActive
    /\ pendingPauses + AutoTrigger(canDelegate, b, IsBiometricAuthEnabled(authKind)) <= MaxPending
    /\ isActive' = b
    /\ localError' = IF b THEN <<>> ELSE localError
    /\ password' = IF b THEN <<>> ELSE password
    /\ pendingPauses' = pendingPauses
                        + AutoTrigger(canDelegate, b, IsBiometricAuthEnabled(authKind))
    /\ formEvent' = Event("setIsActive", <<>>)
    /\ formCalls' = <<>>
    /\ UNCHANGED <<nativeSupported, canDelegate, isLoading, error, authKind, pendingFetches>>
    /\ FormFrame

SetAuthConfig(kind) ==
    /\ kind # authKind
    /\ LET rerun == IsBiometricAuthEnabled(kind) # IsBiometricAuthEnabled(authKind)
           started == IF rerun
                      THEN AutoTrigger(canDelegate, isActive, IsBiometricAuthEnabled(kind))
                      ELSE 0
       IN /\ pendingPauses + started <= MaxPending
          /\ pendingPauses' = pendingPauses + started
    /\ authKind' = kind
    /\ formEvent' = Event("setAuthConfig", <<>>)
    /\ formCalls' = <<>>
    /\ UNCHANGED <<nativeSupported, canDelegate, isActive, isLoading, error, password,
                   localError, pendingFetches>>
    /\ FormFrame

SetError(e) ==
    /\ e # error
    /\ error' = e
    /\ formEvent' = Event("setError", <<>>)
    /\ formCalls' = <<>>
    /\ UNCHANGED <<nativeSupported, canDelegate, isActive, isLoading, authKind, password,
                   localError, pendingPauses, pendingFetches>>
    /\ FormFrame

SetLoading(b) ==
    /\ b # isLoading
    /\ isLoading' = b
    /\ formEvent' = Event("setLoading", <<>>)
    /\ formCalls' = <<>>
    /\ UNCHANGED <<nativeSupported, canDelegate, isActive, error, authKind, password,
                   localError, pendingPauses, pendingFetches>>
    /\ FormFrame

\* The pause of the auto-trigger ends: void handleBiometrics() starts a fetch.
PauseDone ==
    /\ pendingPauses > 0
    /\ pendingFetches < MaxPending
    /\ pendingPauses' = pendingPauses - 1
    /\ pendingFetches' = pendingFetches + 1
    /\ formEvent' = Event("pauseDone", <<>>)
    /\ formCalls' = <<>>
    /\ UNCHANGED <<nativeSupported, canDelegate, isActive, isLoading, error, authKind,
                   password, localError>>
    /\ FormFrame

\* The biometrics control of the PIN pad: present only with onBiometricsClick.
BiometricsClick ==
    /\ nativeSupported
    /\ IsNativeBiometricAuthEnabled(authKind)
    /\ pendingFetches < MaxPending
    /\ pendingFetches' = pendingFetches + 1
    /\ formEvent' = Event("biometricsClick", <<>>)
    /\ formCalls' = <<>>
    /\ UNCHANGED <<nativeSupported, canDelegate, isActive, isLoading, error, authKind,
                   password, localError, pendingPauses>>
    /\ FormFrame

\* What authApi.getPassword settles with: a value ('' or undefined is <<>>) or a throw.
FetchOutcomes ==
    {[kind |-> "value", val |-> v] : v \in StoredSecrets \cup {<<>>}}
      \cup {[kind |-> "throw", val |-> m] : m \in ErrMessages}

\* Mutant: the declined branch is missing, an empty secret is submitted.
HandleBiometricsResume_NoDeclineCheck(outcome, localErr) ==
    IF outcome.kind = "throw"
    THEN [localError |-> IF outcome.val # <<>> THEN outcome.val
                         ELSE Lang(<<"Something went wrong">>),
          calls |-> <<>>]
    ELSE [localError |-> localErr, calls |-> <<Call("onSubmit", outcome.val)>>]

\* Mutant: a successful fetch also resets the local error.
HandleBiometricsResume_ClearsOnSuccess(outcome, localErr) ==
    IF outcome.kind = "throw"
    THEN [localError |-> IF outcome.val # <<>> THEN outcome.val
                         ELSE Lang(<<"Something went wrong">>),
          calls |-> <<>>]
    ELSE IF outcome.val = <<>>
         THEN [localError |-> <<"Declined">>, calls |-> <<>>]
         ELSE [localError |-> <<>>, calls |-> <<Call("onSubmit", outcome.val)>>]

\* handleBiometrics after its await: the new localError and the callbacks invoked.
HandleBiometricsResume(outcome, localErr) ==
    IF outcome.kind = "throw"
    THEN [localError |-> IF outcome.val # <<>> THEN outcome.val
                         ELSE Lang(<<"Something went wrong">>),
          calls |-> <<>>]
    ELSE IF outcome.val = <<>>
         THEN [localError |-> <<"Declined">>, calls |-> <<>>]
         ELSE [localError |-> localErr, calls |-> <<Call("onSubmit", outcome.val)>>]

\* Mutant: a failed or declined fetch is retried at once.
FetchSettle_Retrying(outcome) ==
    /\ pendingFetches > 0
    /\ pendingFetches' = IF outcome.kind = "throw" \/ outcome.val = <<>>
                         THEN pendingFetches ELSE pendingFetches - 1
    /\ LET r == HandleBiometricsResume(outcome, localError)
       IN /\ localError' = r.localError
          /\ formCalls' = r.calls
    /\ formEvent' = Event("fetch-" \o outcome.kind, outcome.val)
    /\ UNCHANGED <<nativeSupported, canDelegate, isActive, isLoading, error, authKind,
                   password, pendingPauses>>
    /\ FormFrame

FetchSettle(outcome) ==
    /\ pendingFetches > 0
    /\ pendingFetches' = pendingFetches - 1
    /\ LET r == HandleBiometricsResume(outcome, localError)
       IN /\ localError' = r.localError
          /\ formCalls' = r.calls
    /\ formEvent' = Event("fetch-" \o outcome.kind, outcome.val)
    /\ UNCHANGED <<nativeSupported, canDelegate, isActive, isLoading, error, authKind,
                   password, pendingPauses>>
    /\ FormFrame

HandleSubmit(pw) == <<Call("onSubmit", pw)>>

\* Whether the onEnter listener is captured after the render.
EnterListenerCaptured(pw) == ~IsSubmitDisabled(pw)

EnterKey ==
    /\ EnterListenerCaptured(password)
    /\ formCalls' = HandleSubmit(password)
    /\ formEvent' = Event("enter", <<>>)
    /\ UNCHANGED <<nativeSupported, canDelegate, isActive, isLoading, error, authKind,
                   password, localError, pendingPauses, pendingFetches>>
    /\ FormFrame

\* The branch that renders.
Branch ==
    IF nativeSupported THEN "pinpad"
    ELSE IF IsBiometricAuthEnabled(authKind) THEN "biometric-prompt"
    ELSE "password-field"

HandleInput(value) ==
    /\ Branch = "password-field"
    /\ value # password
    /\ password' = value
    /\ formCalls' = IF error # <<>> THEN <<Call("onUpdate", <<>>)>> ELSE <<>>
    /\ formEvent' = Event("input", <<>>)
    /\ UNCHANGED <<nativeSupported, canDelegate, isActive, isLoading, error, authKind,
                   localError, pendingPauses, pendingFetches>>
    /\ FormFrame

SubmitClick ==
    /\ Branch = "password-field"
    /\ ~IsSubmitDisabled(password)
    /\ ~isLoading
    /\ formCalls' = HandleSubmit(password)
    /\ formEvent' = Event("submitClick", <<>>)
    /\ UNCHANGED <<nativeSupported, canDelegate, isActive, isLoading, error, authKind,
                   password, localError, pendingPauses, pendingFetches>>
    /\ FormFrame

CancelClick ==
    /\ Branch # "pinpad" => ~(IsBiometricAuthEnabled(authKind) /\ isLoading)
    /\ formCalls' = <<Call("onCancel", <<>>)>>
    /\ formEvent' = Event("cancelClick", <<>>)
    /\ UNCHANGED <<nativeSupported, canDelegate, isActive, isLoading, error, authKind,
                   password, localError, pendingPauses, pendingFetches>>
    /\ FormFrame

\* handleClearError
HandleClearError == <<Call("onUpdate", <<>>)>>

\* PinPad: a digit key. The pad clears the error, appends the digit and submits the
\* value once it has `length` digits.
PinPadDigit(d) ==
    /\ Branch = "pinpad"
    /\ Len(password) < PIN_LENGTH
    /\ LET newValue == Append(password, d)
       IN /\ password' = newValue
          /\ formCalls' = HandleClearError \o
                (IF Len(newValue) = PIN_LENGTH THEN <<Call("onSubmit", newValue)>> ELSE <<>>)
    /\ localError' = <<>>
    /\ formEvent' = Event("pinDigit", <<>>)
    /\ UNCHANGED <<nativeSupported, canDelegate, isActive, isLoading, error, authKind,
                   pendingPauses, pendingFetches>>
    /\ FormFrame

\* PinPad: the backspace key.
PinPadBackspace ==
    /\ Branch = "pinpad"
    /\ Len(password) > 0
    /\ password' = SubSeq(password, 1, Len(password) - 1)
    /\ formCalls' = <<>>
    /\ formEvent' = Event("pinBackspace", <<>>)
    /\ UNCHANGED <<nativeSupported, canDelegate, isActive, isLoading, error, authKind,
                   localError, pendingPauses, pendingFetches>>
    /\ FormFrame

(* What is rendered *)

\* The title of the pad when there is no error (title or actionName).
PinPadPrompt == <<"Enter code">>

\* Mutant: the external error is shown first.
PinPadTitle_ExternalFirst(localErr, err) ==
    IF localErr # <<>> \/ err # <<>>
    THEN Lang(IF err # <<>> THEN err ELSE localErr)
    ELSE Lang(PinPadPrompt)

\* PinPad title: lang(hasError ? (localError || error!) : ...)
PinPadTitle(localErr, err) ==
    IF localErr # <<>> \/ err # <<>>
    THEN Lang(IF localErr # <<>> THEN localErr ELSE err)
    ELSE Lang(PinPadPrompt)

\* PinPad type: hasError ? 'error' : undefined
PinPadType(localErr, err) ==
    IF localErr # <<>> \/ err # <<>> THEN "error" ELSE "undefined"

\* Input error: error ? lang(error) : localError
InputError(localErr, err) == IF err # <<>> THEN Lang(err) ELSE localErr

\* The block under the input: lang(localError) when localError is set, else nothing.
LocalErrorBlock(localErr) == Lang(localErr)

HasCall(calls, fn) == \E i \in DOMAIN calls : calls[i].fn = fn

FormNext ==
    \/ \E b \in BOOLEAN : SetIsActive(b)
    \/ \E k \in AuthKinds : SetAuthConfig(k)
    \/ \E e \in ExternalErrors \cup {<<>>} : SetError(e)
    \/ \E b \in BOOLEAN : SetLoading(b)
    \/ PauseDone
    \/ BiometricsClick
    \/ \E o \in FetchOutcomes : FetchSettle(o)
    \/ EnterKey
    \/ \E v \in SeqsUpTo(MaxInputLen) : HandleInput(v)
    \/ SubmitClick
    \/ CancelClick
    \/ \E d \in Chars : PinPadDigit(d)
    \/ PinPadBackspace

-----------------------------------------------------------------------------
(* LedgerSelectWallets *)

MaxWallets == 3

\* A discovered wallet: its derivation index and the address derived from it.
WalletAt(i) == [address |-> <<"EQ", i>>, index |-> i]

RECURSIVE WalletList(_)
WalletList(S) ==
    IF S = {} THEN <<>>
    ELSE LET m == CHOOSE x \in S : \A y \in S : x <= y
         IN <<WalletAt(m)>> \o WalletList(S \ {m})

\* The lists the discovery step can hand over, and the addresses accounts can hold
\* (those of the wallets and one that is no hardware wallet).
WalletLists == {WalletList(S) : S \in SUBSET (0..(MaxWallets - 1))}
AccountAddresses == {WalletAt(i).address : i \in 0..(MaxWallets - 1)} \cup {<<"UQ", 0>>}

Includes(list, x) == \E k \in DOMAIN list : list[k] = x
Members(list) == {list[k] : k \in DOMAIN list}

LedgerFrame == UNCHANGED <<formVars, mainVars>>

LedgerInit ==
    /\ hardwareWallets \in WalletLists
    /\ accounts \in SUBSET AccountAddresses
    /\ hasOnCancel \in BOOLEAN
    /\ selectedAccountIndices = <<>>
    /\ ledgerEvent = Event("mount", -1)
    /\ ledgerCalls = <<>>

\* Mutant: the index is appended without looking for it first.
handleAccountToggle_NoRemove(selected, index) == selected \o <<index>>

\* handleAccountToggle: the selection after a toggle of index.
handleAccountToggle(selected, index) ==
    IF Includes(selected, index)
    THEN SelectSeq(selected, LAMBDA id : id # index)
    ELSE selected \o <<index>>

\* Mutant: the modal is closed before the action is dispatched.
handleAddLedgerWallets_CloseFirst(selected) ==
    <<Call("onClose", <<>>), Call("afterSelectHardwareWallets", selected)>>

\* handleAddLedgerWallets: what it invokes, in order.
handleAddLedgerWallets(selected) ==
    <<Call("afterSelectHardwareWallets", selected), Call("onClose", <<>>)>>

\* alreadyConnectedList
alreadyConnectedList(accs) == accs

\* Mutant: the click handler is attached to connected entries too.
renderAccount_AlwaysClickable(address, index, isConnected, selected) ==
    [key |-> address,
     isActiveAccount |-> isConnected \/ Includes(selected, index),
     hasOnClick |-> TRUE,
     toggles |-> index]

\* renderAccount: the entry rendered for one wallet.
renderAccount(address, index, isConnected, selected) ==
    [key |-> address,
     isActiveAccount |-> isConnected \/ Includes(selected, index),
     hasOnClick |-> ~isConnected,
     toggles |-> index]

\* renderAccounts: one entry per wallet of the list.
renderAccounts(list, accs, selected) ==
    [k \in DOMAIN list |->
        renderAccount(list[k].address, list[k].index,
                      list[k].address \in alreadyConnectedList(accs), selected)]

\* areAccountsSelected (true when nothing is selected): the Add button's isDisabled.
areAccountsSelected(selected) == Len(selected) = 0

AccountClick(k) ==
    /\ k \in DOMAIN hardwareWallets
    /\ LET entry == renderAccounts(hardwareWallets, accounts, selectedAccountIndices)[k]
       IN /\ entry.hasOnClick
          /\ selectedAccountIndices' = handleAccountToggle(selectedAccountIndices, entry.toggles)
          /\ ledgerEvent' = Event("accountClick", entry.toggles)
    /\ ledgerCalls' = <<>>
    /\ UNCHANGED <<hardwareWallets, accounts, hasOnCancel>>
    /\ LedgerFrame

AddClick ==
    /\ ~areAccountsSelected(selectedAccountIndices)
    /\ ledgerCalls' = handleAddLedgerWallets(selectedAccountIndices)
    /\ ledgerEvent' = Event("addClick", -1)
    /\ UNCHANGED <<hardwareWallets, accounts, hasOnCancel, selectedAccountIndices>>
    /\ LedgerFrame

\* The Cancel/Back button: shouldCloseOnCancel ? onClose : onCancel
LedgerCancelClick ==
    /\ ledgerCalls' = IF ~hasOnCancel THEN <<Call("onClose", <<>>)>>
                      ELSE <<Call("onCancel", <<>>)>>
    /\ ledgerEvent' = Event("cancelClick", -1)
    /\ UNCHANGED <<hardwareWallets, accounts, hasOnCancel, selectedAccountIndices>>
    /\ LedgerFrame

\* The close button of the ModalHeader.
LedgerHeaderClose ==
    /\ ledgerCalls' = <<Call("onClose", <<>>)>>
    /\ ledgerEvent' = Event("headerClose", -1)
    /\ UNCHANGED <<hardwareWallets, accounts, hasOnCancel, selectedAccountIndices>>
    /\ LedgerFrame

\* The parent passes another list of wallets.
SetHardwareWallets(list) ==
    /\ list # hardwareWallets
    /\ hardwareWallets' = list
    /\ ledgerEvent' = Event("setHardwareWallets", -1)
    /\ ledgerCalls' = <<>>
    /\ UNCHANGED <<accounts, hasOnCancel, selectedAccountIndices>>
    /\ LedgerFrame

\* The accounts of the parent change: one is added or one is removed.
SetAccounts(accs) ==
    /\ \E a \in AccountAddresses : accs \in {accounts \cup {a}, accounts \ {a}}
    /\ accs # accounts
    /\ accounts' = accs
    /\ ledgerEvent' = Event("setAccounts", -1)
    /\ ledgerCalls' = <<>>
    /\ UNCHANGED <<hardwareWallets, hasOnCancel, selectedAccountIndices>>
    /\ LedgerFrame

LedgerNext ==
    \/ \E k \in 1..MaxWallets : AccountClick(k)
    \/ AddClick
    \/ LedgerCancelClick
    \/ LedgerHeaderClose
    \/ \E list \in WalletLists : SetHardwareWallets(list)
    \/ \E accs \in SUBSET AccountAddresses : SetAccounts(accs)

-----------------------------------------------------------------------------
(* Main *)

NoSlug == "undefined"
TokenSlugs == {"toncoin", "usdt"}
ContentTabs == {"Assets", "Activity", "Nft"}
SwipeDirections == {"Up", "Down", "Left", "Right"}

MainFrame == UNCHANGED <<formVars, ledgerVars>>

\* The global state after one dispatched action.
Reduce(st, call) ==
    CASE call.fn = "selectToken" -> [st EXCEPT !.currentTokenSlug = call.arg]
      [] call.fn = "setActiveContentTab" -> [st EXCEPT !.activeContentTab = call.arg]
      [] call.fn = "setSwapTokenOut" -> [st EXCEPT !.swapTokenOut = call.arg]
      [] call.fn = "changeTransferToken" -> [st EXCEPT !.transferToken = call.arg]
      [] OTHER -> st

RECURSIVE ReduceAll(_, _)
ReduceAll(st, calls) ==
    IF calls = <<>> THEN st ELSE ReduceAll(Reduce(st, Head(calls)), Tail(calls))

\* The effect on [currentTokenSlug]: what it dispatches when the slug has changed.
TokenSlugEffect(oldSlug, newSlug) ==
    IF newSlug # oldSlug /\ newSlug # NoSlug
    THEN <<Call("setActiveContentTab", "Activity"),
           Call("setSwapTokenOut", newSlug),
           Call("changeTransferToken", newSlug)>>
    ELSE <<>>

\* handleTokenCardClose: what it dispatches.
handleTokenCardClose ==
    <<Call("selectToken", NoSlug), Call("setActiveContentTab", "Assets")>>

\* Mutant: any horizontal swipe closes the token.
onSwipe_AnyHorizontal(direction) ==
    IF direction \in {"Left", "Right"}
    THEN [calls |-> handleTokenCardClose, handled |-> TRUE]
    ELSE [calls |-> <<>>, handled |-> FALSE]

\* onSwipe: what it dispatches and what it returns.
onSwipe(direction) ==
    IF direction = "Right"
    THEN [calls |-> handleTokenCardClose, handled |-> TRUE]
    ELSE [calls |-> <<>>, handled |-> FALSE]

\* portraitContainerRef.current is set when the portrait layout is rendered.
PortraitContainerRendered(delegated, portrait) == ~delegated /\ portrait

\* The swipe effect: whether captureEvents is registered after the render.
SwipeCaptured(touch, portrait, container, slug) ==
    ~(~touch \/ ~portrait \/ ~container \/ slug = NoSlug)

\* The dispatches of a handler, then those of the effect on the slug they changed.
Dispatch(calls) ==
    LET st1 == ReduceAll(store, calls)
        more == TokenSlugEffect(store.currentTokenSlug, st1.currentTokenSlug)
    IN /\ store' = ReduceAll(st1, more)
       /\ mainCalls' = calls \o more

\* cardRef.current is set when the portrait layout, which holds the card, is rendered.
CardRendered(delegated, portrait) == ~delegated /\ portrait

\* Mutant: the effect returns no teardown.
ObserverEffect_NoTeardown(observingBefore, portrait, active, card, sticky) ==
    IF ~portrait \/ ~active
    THEN [observing |-> observingBefore, canRenderStickyCard |-> FALSE]
    ELSE [observing |-> observingBefore + (IF card THEN 1 ELSE 0),
          canRenderStickyCard |-> sticky]

\* The effect on [isActive, isPortrait]: the teardown of its previous run (which
\* unobserves the card that run observed), then the run itself.
ObserverEffect(observingBefore, portrait, active, card, sticky) ==
    LET cleaned == IF observingBefore > 0 THEN observingBefore - 1 ELSE 0
    IN IF ~portrait \/ ~active
       THEN [observing |-> cleaned, canRenderStickyCard |-> FALSE]
       ELSE [observing |-> cleaned + (IF card THEN 1 ELSE 0),
             canRenderStickyCard |-> sticky]

\* The callback of `observer`: the new canRenderStickyCard.
StickyCallback(isIntersecting, left, width) ==
    ~isIntersecting /\ left >= 0 /\ left < width

\* The callback of `cardTopSideObserver`: the new shouldRenderDarkStatusBar.
TopSideCallback(isIntersecting) == ~isIntersecting

\* The effect on [shouldRenderDarkStatusBar].
StatusBarEffect(dark) == <<Call("setStatusBarStyle", IF dark THEN "true" ELSE "false")>>

\* The left edges and the width of the card's bounding box an entry can report.
CardLefts == {-1, 0, 2}
CardWidth == 2

MainInit ==
    /\ isTouchEnv \in BOOLEAN
    /\ isDelegatedSheet \in BOOLEAN
    /\ isPortrait \in BOOLEAN
    /\ mainIsActive \in BOOLEAN
    /\ LET r == ObserverEffect(0, isPortrait, mainIsActive,
                               CardRendered(isDelegatedSheet, isPortrait), FALSE)
       IN /\ observing = r.observing
          /\ canRenderStickyCard = r.canRenderStickyCard
    /\ shouldRenderDarkStatusBar = FALSE
    /\ store = [currentTokenSlug |-> NoSlug, activeContentTab |-> "Assets",
                swapTokenOut |-> NoSlug, transferToken |-> NoSlug]
    /\ swipeResult = "none"
    /\ mainEvent = Event("mount", "")
    /\ mainCalls = StatusBarEffect(FALSE)

\* The device turns.
SetPortrait(b) ==
    /\ b # isPortrait
    /\ isPortrait' = b
    /\ LET r == ObserverEffect(observing, b, mainIsActive,
                               CardRendered(isDelegatedSheet, b), canRenderStickyCard)
       IN /\ observing' = r.observing
          /\ canRenderStickyCard' = r.canRenderStickyCard
    /\ swipeResult' = "none"
    /\ mainEvent' = Event("setPortrait", "")
    /\ mainCalls' = <<>>
    /\ UNCHANGED <<isTouchEnv, isDelegatedSheet, mainIsActive, shouldRenderDarkStatusBar,
                   store>>
    /\ MainFrame

\* The screen becomes active or inactive.
SetMainActive(b) ==
    /\ b # mainIsActive
    /\ mainIsActive' = b
    /\ LET r == ObserverEffect(observing, isPortrait, b,
                               CardRendered(isDelegatedSheet, isPortrait),
                               canRenderStickyCard)
       IN /\ observing' = r.observing
          /\ canRenderStickyCard' = r.canRenderStickyCard
    /\ swipeResult' = "none"
    /\ mainEvent' = Event("setMainActive", "")
    /\ mainCalls' = <<>>
    /\ UNCHANGED <<isTouchEnv, isDelegatedSheet, isPortrait, shouldRenderDarkStatusBar,
                   store>>
    /\ MainFrame

\* `observer` reports an entry for the card it observes.
StickyObserved(isIntersecting, left) ==
    /\ observing > 0
    /\ canRenderStickyCard' = StickyCallback(isIntersecting, left, CardWidth)
    /\ swipeResult' = "none"
    /\ mainEvent' = Event("stickyObserved", "")
    /\ mainCalls' = <<>>
    /\ UNCHANGED <<isTouchEnv, isDelegatedSheet, isPortrait, mainIsActive,
                   shouldRenderDarkStatusBar, observing, store>>
    /\ MainFrame

\* `cardTopSideObserver` reports an entry for the card it observes.
TopSideObserved(isIntersecting) ==
    /\ observing > 0
    /\ shouldRenderDarkStatusBar' = TopSideCallback(isIntersecting)
    /\ mainCalls' = IF TopSideCallback(isIntersecting) # shouldRenderDarkStatusBar
                    THEN StatusBarEffect(TopSideCallback(isIntersecting))
                    ELSE <<>>
    /\ swipeResult' = "none"
    /\ mainEvent' = Event("topSideObserved", "")
    /\ UNCHANGED <<isTouchEnv, isDelegatedSheet, isPortrait, mainIsActive,
                   canRenderStickyCard, observing, store>>
    /\ MainFrame

\* Another component selects a token.
TokenSelected(slug) ==
    /\ slug # store.currentTokenSlug
    /\ Dispatch(<<Call("selectToken", slug)>>)
    /\ swipeResult' = "none"
    /\ mainEvent' = Event("tokenSelected", slug)
    /\ UNCHANGED <<isTouchEnv, isDelegatedSheet, isPortrait, mainIsActive,
                   canRenderStickyCard, shouldRenderDarkStatusBar, observing>>
    /\ MainFrame

\* Another component switches the content tab.
TabSelected(tab) ==
    /\ tab # store.activeContentTab
    /\ Dispatch(<<Call("setActiveContentTab", tab)>>)
    /\ swipeResult' = "none"
    /\ mainEvent' = Event("tabSelected", tab)
    /\ UNCHANGED <<isTouchEnv, isDelegatedSheet, isPortrait, mainIsActive,
                   canRenderStickyCard, shouldRenderDarkStatusBar, observing>>
    /\ MainFrame

\* The card's onTokenCardClose.
TokenCardClose ==
    /\ ~isDelegatedSheet
    /\ store.currentTokenSlug # NoSlug
    /\ Dispatch(handleTokenCardClose)
    /\ swipeResult' = "none"
    /\ mainEvent' = Event("tokenCardClose", "")
    /\ UNCHANGED <<isTouchEnv, isDelegatedSheet, isPortrait, mainIsActive,
                   canRenderStickyCard, shouldRenderDarkStatusBar, observing>>
    /\ MainFrame

\* The gesture dispatcher reports a swipe on the portrait container.
Swipe(direction) ==
    /\ SwipeCaptured(isTouchEnv, isPortrait,
                     PortraitContainerRendered(isDelegatedSheet, isPortrait),
                     store.currentTokenSlug)
    /\ LET r == onSwipe(direction)
       IN /\ Dispatch(r.calls)
          /\ swipeResult' = IF r.handled THEN "handled" ELSE "not-handled"
    /\ mainEvent' = Event("swipe", direction)
    /\ UNCHANGED <<isTouchEnv, isDelegatedSheet, isPortrait, mainIsActive,
                   canRenderStickyCard, shouldRenderDarkStatusBar, observing>>
    /\ MainFrame

MainNext ==
    \/ \E b \in BOOLEAN : SetPortrait(b)
    \/ \E slug \in TokenSlugs : TokenSelected(slug)
    \/ \E tab \in ContentTabs : TabSelected(tab)
    \/ TokenCardClose
    \/ \E d \in SwipeDirections : Swipe(d)
    \/ \E b \in BOOLEAN : SetMainActive(b)
    \/ \E i \in BOOLEAN, left \in CardLefts : StickyObserved(i, left)
    \/ \E i \in BOOLEAN : TopSideObserved(i)

-----------------------------------------------------------------------------
(* Specifications: one per component, the other two at rest *)

FormAtRest ==
    /\ nativeSupported = FALSE /\ canDelegate = FALSE /\ isActive = FALSE
    /\ isLoading = FALSE /\ error = <<>> /\ authKind = "none"
    /\ password = <<>> /\ localError = <<>>
    /\ pendingPauses = 0 /\ pendingFetches = 0
    /\ formEvent = Event("mount", <<>>) /\ formCalls = <<>>

LedgerAtRest ==
    /\ hardwareWallets = <<>> /\ accounts = {} /\ hasOnCancel = FALSE
    /\ selectedAccountIndices = <<>>
    /\ ledgerEvent = Event("mount", -1) /\ ledgerCalls = <<>>

MainAtRest ==
    /\ isTouchEnv = FALSE /\ isDelegatedSheet = FALSE /\ isPortrait = FALSE
    /\ mainIsActive = FALSE /\ canRenderStickyCard = FALSE
    /\ shouldRenderDarkStatusBar = FALSE /\ observing = 0
    /\ store = [currentTokenSlug |-> NoSlug, activeContentTab |-> "Assets",
                swapTokenOut |-> NoSlug, transferToken |-> NoSlug]
    /\ swipeResult = "none"
    /\ mainEvent = Event("mount", "") /\ mainCalls = <<>>

Init == FormInit /\ LedgerAtRest /\ MainAtRest
Spec == Init /\ [][FormNext]_vars

LedgerSpecInit == FormAtRest /\ LedgerInit /\ MainAtRest
LedgerSpec == LedgerSpecInit /\ [][LedgerNext]_vars

MainSpecInit == FormAtRest /\ LedgerAtRest /\ MainInit
MainSpec == MainSpecInit /\ [][MainNext]_vars

-----------------------------------------------------------------------------
(* Claims on PasswordForm, checked under Spec *)

C2_EnterSubmitsOnlyWhenEnabled ==
    (formEvent.kind = "enter" /\ HasCall(formCalls, "onSubmit")) =>
        IF Branch = "pinpad" THEN Len(password) = PIN_LENGTH ELSE Len(password) > 0

\* C3: a declined fetch (an empty or absent secret) sets the local error to
\* "Declined" and calls no callback, onSubmit included.
C3_DeclinedSetsLocalError ==
    formEvent = Event("fetch-value", <<>>) =>
        /\ localError = <<"Declined">>
        /\ ~HasCall(formCalls, "onSubmit")

\* C3 witness: a fetch was declined while an external error was shown.
C3_Declined ==
    /\ formEvent = Event("fetch-value", <<>>)
    /\ error # <<>>
    /\ localError = <<"Declined">>
    /\ formCalls = <<>>

\* C4: a fetch that returns a non-empty secret s calls onSubmit(s) exactly once and
\* nothing else, and leaves the local error as it was.
C4_SuccessSubmitsOnce ==
    [][(formEvent'.kind = "fetch-value" /\ formEvent'.arg # <<>>) =>
          /\ formCalls' = <<Call("onSubmit", formEvent'.arg)>>
          /\ localError' = localError]_vars

\* C4 witness: a fetch succeeded while a local error of an earlier attempt was set.
C4_SuccessAfterDecline ==
    /\ formEvent = Event("fetch-value", <<"2", "1", "2", "1">>)
    /\ formCalls = <<Call("onSubmit", <<"2", "1", "2", "1">>)>>
    /\ localError = <<"Declined">>

\* C5: a fetch starts only when the pause of the auto-trigger ends or the biometrics
\* control of the PIN pad is pressed; the auto-trigger starts one pause each time
\* the form becomes active with biometrics enabled, never on a delegating surface;
\* a settled fetch, failed or declined, starts nothing.
C5_FetchStartsOnlyByTriggerOrClick ==
    /\ [](canDelegate => pendingPauses = 0)
    /\ [][/\ pendingFetches' > pendingFetches =>
                /\ formEvent'.kind \in {"pauseDone", "biometricsClick"}
                /\ pendingFetches' = pendingFetches + 1
          /\ formEvent'.kind = "pauseDone" =>
                /\ pendingPauses' = pendingPauses - 1
                /\ pendingFetches' = pendingFetches + 1
          /\ formEvent'.kind = "biometricsClick" =>
                /\ Branch = "pinpad"
                /\ IsNativeBiometricAuthEnabled(authKind)
          /\ pendingPauses' > pendingPauses =>
                /\ pendingPauses' = pendingPauses + 1
                /\ formEvent'.kind \in {"setIsActive", "setAuthConfig"}
                /\ ~canDelegate /\ isActive' /\ IsBiometricAuthEnabled(authKind')
                /\ \/ ~isActive
                   \/ ~IsBiometricAuthEnabled(authKind)
          /\ (/\ formEvent'.kind = "setIsActive"
              /\ isActive' /\ IsBiometricAuthEnabled(authKind) /\ ~canDelegate) =>
                pendingPauses' = pendingPauses + 1
          /\ formEvent'.kind \in {"fetch-value", "fetch-throw"} =>
                /\ pendingFetches' = pendingFetches - 1
                /\ pendingPauses' = pendingPauses]_vars

\* C5 witness: a fetch failed and nothing is pending: the form waits for the user.
C5_FailedAndIdle ==
    /\ formEvent.kind = "fetch-throw"
    /\ pendingFetches = 0
    /\ pendingPauses = 0

\* C11: deactivation cancels nothing. A change of isActive leaves every pending
\* fetch and every pending pause pending; a pending pause can still end and a pending
\* fetch can still settle whatever isActive is; and a fetch that settles while the
\* form is not active acts on its outcome as usual: onSubmit(s) for a secret s,
\* "Declined" for an empty one, the failure's message (or the generic one) for a throw.
C11_PendingSurvivesDeactivation ==
    /\ [](pendingFetches > 0 => \A o \in FetchOutcomes : ENABLED FetchSettle(o))
    /\ []((pendingPauses > 0 /\ pendingFetches < MaxPending) => ENABLED PauseDone)
    /\ [][formEvent'.kind = "setIsActive" =>
            /\ pendingFetches' = pendingFetches
            /\ pendingPauses' >= pendingPauses]_vars
    /\ [][(~isActive /\ formEvent'.kind \in {"fetch-value", "fetch-throw"}) =>
            /\ ~isActive'
            /\ pendingFetches' = pendingFetches - 1
            /\ IF formEvent'.kind = "fetch-throw"
               THEN /\ formCalls' = <<>>
                    /\ localError' = IF formEvent'.arg # <<>> THEN formEvent'.arg
                                     ELSE Lang(<<"Something went wrong">>)
               ELSE IF formEvent'.arg = <<>>
                    THEN /\ formCalls' = <<>>
                         /\ localError' = <<"Declined">>
                    ELSE /\ formCalls' = <<Call("onSubmit", formEvent'.arg)>>
                         /\ localError' = localError]_vars

\* C11 witness: the form is not active and a fetch has just called onSubmit with the
\* retrieved secret. Without the PIN pad there is no biometrics control, so the fetch
\* comes from an auto-trigger, which starts only while the form is active: the form
\* was deactivated while the pause or the fetch was pending.
C11_SubmittedWhileInactive ==
    /\ ~nativeSupported
    /\ ~isActive
    /\ formEvent = Event("fetch-value", <<"2", "1", "2", "1">>)
    /\ formCalls = <<Call("onSubmit", <<"2", "1", "2", "1">>)>>

-----------------------------------------------------------------------------
(* Claims on LedgerSelectWallets, checked under LedgerSpec *)

\* C6: from every selection the selector reaches, toggling any index twice in
\* succession gives a selection with the same members (the order may differ).
C6_ToggleTwiceKeepsMembers ==
    \A i \in 0..MaxWallets :
        Members(handleAccountToggle(handleAccountToggle(selectedAccountIndices, i), i))
            = Members(selectedAccountIndices)

\* C6 witness: after a click, a selection whose first index, toggled twice, comes
\* back at the end of the list: same members, another order.
C6_ToggledTwiceReordered ==
    /\ ledgerEvent.kind = "accountClick"
    /\ Len(selectedAccountIndices) >= 2
    /\ LET i == selectedAccountIndices[1]
           twice == handleAccountToggle(handleAccountToggle(selectedAccountIndices, i), i)
       IN /\ twice # selectedAccountIndices
          /\ Members(twice) = Members(selectedAccountIndices)

\* C7: a press of Add happens only with a non-empty selection and invokes exactly
\* afterSelectHardwareWallets with the selected indices and then onClose.
C7_AddDispatchesThenCloses ==
    ledgerEvent.kind = "addClick" =>
        /\ selectedAccountIndices # <<>>
        /\ ledgerCalls = <<Call("afterSelectHardwareWallets", selectedAccountIndices),
                           Call("onClose", <<>>)>>

\* C7 witness: Add was pressed with two indices selected.
C7_AddedTwo ==
    /\ ledgerEvent.kind = "addClick"
    /\ selectedAccountIndices = <<0, 2>>
    /\ ledgerCalls[1] = Call("afterSelectHardwareWallets", <<0, 2>>)
    /\ ledgerCalls[2].fn = "onClose"

\* Whether the wallet at place k of the list is already linked.
IsLinked(k) == hardwareWallets[k].address \in alreadyConnectedList(accounts)

\* C8: every already-linked entry is rendered active and without a click handler,
\* and no click changes whether the index of an already-linked entry is selected.
C8_LinkedStaysActive ==
    /\ [](\A k \in DOMAIN hardwareWallets :
            IsLinked(k) =>
              LET entry == renderAccounts(hardwareWallets, accounts,
                                          selectedAccountIndices)[k]
              IN entry.isActiveAccount /\ ~entry.hasOnClick)
    /\ [][ledgerEvent'.kind = "accountClick" =>
            \A k \in DOMAIN hardwareWallets :
              IsLinked(k) =>
                (Includes(selectedAccountIndices', hardwareWallets[k].index)
                   <=> Includes(selectedAccountIndices, hardwareWallets[k].index))]_vars

\* C8 witness: a click on another entry while a linked entry, not selected, is shown.
C8_ClickBesideLinked ==
    /\ ledgerEvent.kind = "accountClick"
    /\ selectedAccountIndices # <<>>
    /\ \E k \in DOMAIN hardwareWallets :
          /\ IsLinked(k)
          /\ ~Includes(selectedAccountIndices, hardwareWallets[k].index)
          /\ renderAccounts(hardwareWallets, accounts,
                            selectedAccountIndices)[k].isActiveAccount

\* The indices of the candidates of the current list.
CandidateIndices == {hardwareWallets[k].index : k \in DOMAIN hardwareWallets}

\* C9 (as stated): every selected index is the index of a candidate of the current
\* list, and so is every index Add submits.
C9_SelectionWithinCandidates ==
    /\ Members(selectedAccountIndices) \subseteq CandidateIndices
    /\ \A c \in DOMAIN ledgerCalls :
          ledgerCalls[c].fn = "afterSelectHardwareWallets" =>
              Members(ledgerCalls[c].arg) \subseteq CandidateIndices

-----------------------------------------------------------------------------
(* Claims on Main, checked under MainSpec *)

\* C10: a swipe is handled only in a touch environment, in portrait, with a token
\* focused; a swipe right dispatches selectToken without slug and the Assets tab,
\* which closes the token, and reports handled; any other direction dispatches
\* nothing, leaves the token focused and reports not handled.
C10_SwipeRightCloses ==
    [][mainEvent'.kind = "swipe" =>
          /\ isTouchEnv /\ isPortrait /\ store.currentTokenSlug # NoSlug
          /\ IF mainEvent'.arg = "Right"
             THEN /\ mainCalls' = <<Call("selectToken", NoSlug),
                                    Call("setActiveContentTab", "Assets")>>
                  /\ store'.currentTokenSlug = NoSlug
                  /\ store'.activeContentTab = "Assets"
                  /\ swipeResult' = "handled"
             ELSE /\ mainCalls' = <<>>
                  /\ store' = store
                  /\ swipeResult' = "not-handled"]_vars

\* C10 witness: a swipe right has closed the token.
C10_ClosedBySwipe ==
    /\ mainEvent = Event("swipe", "Right")
    /\ store.currentTokenSlug = NoSlug
    /\ store.activeContentTab = "Assets"
    /\ swipeResult = "handled"

\* C12: the two observers observe the card only while the screen is active and in
\* portrait layout, never more than one pair at a time, and canRenderStickyCard is
\* false whenever the screen is inactive or not in portrait layout.
C12_ObserversScoped ==
    /\ observing <= 1
    /\ observing > 0 => (mainIsActive /\ isPortrait)
    /\ (~mainIsActive \/ ~isPortrait) => ~canRenderStickyCard

\* C12 witness: the screen was deactivated after the observers had reported: the
\* status bar is still dark, no pair observes and the sticky card is not eligible.
C12_TornDownOnDeactivation ==
    /\ mainEvent.kind = "setMainActive"
    /\ ~mainIsActive
    /\ isPortrait
    /\ shouldRenderDarkStatusBar
    /\ observing = 0
    /\ ~canRenderStickyCard

=============================================================================
